---- MODULE Spec2Model ----
(***************************************************************************)
(* Model of the curator pipeline of src/bmain.py (and the ensemble variant *)
(* src/main.py): the tolerant JSON extractor, the vote tally over repeated *)
(* runs, the quorum filter and the cluster resolver.                       *)
(*                                                                         *)
(* A text is a sequence of tokens.  Every token is one character of the    *)
(* Python string, except the two multi-character tokens "fence" (three     *)
(* backquotes, a code fence) and "json" (the language tag), which the      *)
(* regular expression of the extractor treats as units.                    *)
(***************************************************************************)
EXTENDS Integers, Sequences, FiniteSets, TLC

\* ------------------------------------------------------------------------
\* Python / JSON values
\* ------------------------------------------------------------------------

\* Python None: the "no result" of the extractor
None == [k |-> "none"]

PyInt(n) == [k |-> "int", n |-> n]

PyBool(b) == [k |-> "bool", b |-> b]

PyStr(s) == [k |-> "str", s |-> s]

PyList(items) == [k |-> "list", items |-> items]

\* a dict in insertion order: keys[i] maps to vals[i]
PyDict(keys, vals) == [k |-> "dict", keys |-> keys, vals |-> vals]

IsList(v) == v.k = "list"

IsDict(v) == v.k = "dict"

\* ------------------------------------------------------------------------
\* json.loads on a token sequence
\* ------------------------------------------------------------------------

\* the three backquotes of a code fence
Fence == "fence"

JsonTag == "json"

IsSpace(c) == c = " "

IsDigit(c) == c = "1"

\* result of a failed parse step
Fail == [ok |-> FALSE]

Ok(v, p) == [ok |-> TRUE, val |-> v, pos |-> p]

\* index of the first non-whitespace token at or after p (Len(t)+1 if none)
RECURSIVE SkipWs(_, _)
SkipWs(t, p) ==
    IF p <= Len(t) /\ IsSpace(t[p]) THEN SkipWs(t, p + 1) ELSE p

\* a run of digits starting at p: value acc so far
RECURSIVE ScanDigits(_, _, _)
ScanDigits(t, p, acc) ==
    IF p <= Len(t) /\ IsDigit(t[p])
    THEN ScanDigits(t, p + 1, acc * 10 + 1)
    ELSE Ok(PyInt(acc), p)

\* the body of a string, p is just after the opening quote
RECURSIVE ScanString(_, _, _)
ScanString(t, p, acc) ==
    IF p > Len(t) THEN Fail
    ELSE IF t[p] = "\"" THEN Ok(PyStr(acc), p + 1)
    ELSE IF t[p] = "\\"
         THEN IF p + 1 <= Len(t) /\ t[p + 1] \in {"\"", "\\"}
              THEN ScanString(t, p + 2, Append(acc, t[p + 1]))
              ELSE Fail
    ELSE ScanString(t, p + 1, Append(acc, t[p]))

\* index of key in keys, 0 if absent
RECURSIVE KeyIndex(_, _, _)
KeyIndex(keys, key, i) ==
    IF i > Len(keys) THEN 0
    ELSE IF keys[i] = key THEN i
    ELSE KeyIndex(keys, key, i + 1)

\* d[key] = val on an insertion-ordered dict
DictSet(d, key, val) ==
    LET i == KeyIndex(d.keys, key, 1) IN
    IF i = 0
    THEN PyDict(Append(d.keys, key), Append(d.vals, val))
    ELSE PyDict(d.keys, [d.vals EXCEPT ![i] = val])

RECURSIVE ScanValue(_, _)
RECURSIVE ScanArray(_, _, _)
RECURSIVE ScanObject(_, _, _)

\* scan_once: the value starting exactly at p
ScanValue(t, p) ==
    IF p > Len(t) THEN Fail
    ELSE IF t[p] = "\"" THEN ScanString(t, p + 1, <<>>)
    ELSE IF t[p] = "[" THEN
        LET q == SkipWs(t, p + 1) IN
        IF q <= Len(t) /\ t[q] = "]" THEN Ok(PyList(<<>>), q + 1)
        ELSE ScanArray(t, q, <<>>)
    ELSE IF t[p] = "{" THEN
        LET q == SkipWs(t, p + 1) IN
        IF q <= Len(t) /\ t[q] = "}" THEN Ok(PyDict(<<>>, <<>>), q + 1)
        ELSE ScanObject(t, q, PyDict(<<>>, <<>>))
    ELSE IF IsDigit(t[p]) THEN ScanDigits(t, p, 0)
    ELSE Fail

\* the items of an array, p at the start of the next item
ScanArray(t, p, acc) ==
    LET r == ScanValue(t, p) IN
    IF ~r.ok THEN Fail
    ELSE LET q == SkipWs(t, r.pos) IN
         IF q > Len(t) THEN Fail
         ELSE IF t[q] = "]" THEN Ok(PyList(Append(acc, r.val)), q + 1)
         ELSE IF t[q] = "," THEN ScanArray(t, SkipWs(t, q + 1), Append(acc, r.val))
         ELSE Fail

\* the pairs of an object, p at the opening quote of the next key
ScanObject(t, p, acc) ==
    IF p > Len(t) \/ t[p] # "\"" THEN Fail
    ELSE LET key == ScanString(t, p + 1, <<>>) IN
         IF ~key.ok THEN Fail
         ELSE LET c == SkipWs(t, key.pos) IN
              IF c > Len(t) \/ t[c] # ":" THEN Fail
              ELSE LET r == ScanValue(t, SkipWs(t, c + 1)) IN
                   IF ~r.ok THEN Fail
                   ELSE LET q == SkipWs(t, r.pos)
                            d == DictSet(acc, key.val.s, r.val) IN
                        IF q > Len(t) THEN Fail
                        ELSE IF t[q] = "}" THEN Ok(d, q + 1)
                        ELSE IF t[q] = "," THEN ScanObject(t, SkipWs(t, q + 1), d)
                        ELSE Fail

\* json.loads(t): the value of the whole text, None when it raises
JsonLoads(t) ==
    LET r == ScanValue(t, SkipWs(t, 1)) IN
    IF r.ok /\ SkipWs(t, r.pos) > Len(t) THEN r.val ELSE None

\* ------------------------------------------------------------------------
\* extract_json_from_text
\* ------------------------------------------------------------------------

\* re.sub(r'```(?:json)?', '', text, flags=re.IGNORECASE): every fence goes,
\* together with a language tag directly after it
RECURSIVE StripFences(_)
StripFences(t) ==
    IF t = <<>> THEN <<>>
    ELSE IF Head(t) = Fence
         THEN IF Len(t) >= 2 /\ t[2] = JsonTag
              THEN StripFences(SubSeq(t, 3, Len(t)))
              ELSE StripFences(Tail(t))
    ELSE <<Head(t)>> \o StripFences(Tail(t))

\* index of the last non-whitespace token at or before p (0 if none)
RECURSIVE SkipWsBack(_, _)
SkipWsBack(t, p) ==
    IF p >= 1 /\ IsSpace(t[p]) THEN SkipWsBack(t, p - 1) ELSE p

\* str.strip()
Strip(t) == SubSeq(t, SkipWs(t, 1), SkipWsBack(t, Len(t)))

IsCloser(c) == c \in {"]", "}"}

IsOpener(c) == c \in {"[", "{"}

\* the repair with ']' as the replacement instead of the closer that was matched
RECURSIVE RemoveTrailingCommasAsSquare(_)
RemoveTrailingCommasAsSquare(t) ==
    IF t = <<>> THEN <<>>
    ELSE LET q == SkipWs(t, 2) IN
         IF Head(t) = "," /\ q <= Len(t) /\ IsCloser(t[q])
         THEN <<"]">> \o RemoveTrailingCommasAsSquare(SubSeq(t, q + 1, Len(t)))
         ELSE <<Head(t)>> \o RemoveTrailingCommasAsSquare(Tail(t))

\* re.sub(r',\s*([}\]])', r'\1', candidate): a comma, with the whitespace
\* after it, is removed when a closing bracket follows
RECURSIVE RemoveTrailingCommas(_)
RemoveTrailingCommas(t) ==
    IF t = <<>> THEN <<>>
    ELSE LET q == SkipWs(t, 2) IN
         IF Head(t) = "," /\ q <= Len(t) /\ IsCloser(t[q])
         THEN <<t[q]>> \o RemoveTrailingCommas(SubSeq(t, q + 1, Len(t)))
         ELSE <<Head(t)>> \o RemoveTrailingCommas(Tail(t))

\* json.loads(candidate), and on failure json.loads of the repaired candidate
LoadsWithRepair(candidate) ==
    LET v == JsonLoads(candidate) IN
    IF v # None THEN v ELSE JsonLoads(RemoveTrailingCommas(candidate))

\* index of the first opening bracket at or after i, 0 if there is none
RECURSIVE FirstOpener(_, _)
FirstOpener(t, i) ==
    IF i > Len(t) THEN 0
    ELSE IF IsOpener(t[i]) THEN i
    ELSE FirstOpener(t, i + 1)

\* text.find('['): 0 if there is none
RECURSIVE Find(_, _, _)
Find(t, c, i) ==
    IF i > Len(t) THEN 0
    ELSE IF t[i] = c THEN i
    ELSE Find(t, c, i + 1)

\* text.rfind(']'): 0 if there is none
RECURSIVE RFind(_, _, _)
RFind(t, c, i) ==
    IF i < 1 THEN 0
    ELSE IF t[i] = c THEN i
    ELSE RFind(t, c, i - 1)

\* the bracket scan without the escape flag: a quote after a backslash ends
\* the quoted run
RECURSIVE BracketScanNoEscape(_, _, _, _, _)
BracketScanNoEscape(t, i, stack, in_str, esc) ==
    IF i > Len(t) THEN 0
    ELSE LET ch == t[i] IN
         IF in_str # ""
         THEN IF ch = in_str THEN BracketScanNoEscape(t, i + 1, stack, "", FALSE)
              ELSE BracketScanNoEscape(t, i + 1, stack, in_str, FALSE)
         ELSE IF ch = "\"" \/ ch = "'" THEN BracketScanNoEscape(t, i + 1, stack, ch, esc)
         ELSE IF ch = "[" THEN BracketScanNoEscape(t, i + 1, Append(stack, "]"), in_str, esc)
         ELSE IF ch = "{" THEN BracketScanNoEscape(t, i + 1, Append(stack, "}"), in_str, esc)
         ELSE IF ch = "]" \/ ch = "}"
              THEN IF stack = <<>> THEN 0
                   ELSE IF ch # stack[Len(stack)] THEN 0
                   ELSE IF Len(stack) = 1 THEN i
                   ELSE BracketScanNoEscape(t, i + 1, SubSeq(stack, 1, Len(stack) - 1),
                                            in_str, esc)
         ELSE BracketScanNoEscape(t, i + 1, stack, in_str, esc)

\* the bracket scan without the string mode: quotes are ordinary characters
RECURSIVE BracketScanNoQuotes(_, _, _, _, _)
BracketScanNoQuotes(t, i, stack, in_str, esc) ==
    IF i > Len(t) THEN 0
    ELSE LET ch == t[i] IN
         IF ch = "[" THEN BracketScanNoQuotes(t, i + 1, Append(stack, "]"), in_str, esc)
         ELSE IF ch = "{" THEN BracketScanNoQuotes(t, i + 1, Append(stack, "}"), in_str, esc)
         ELSE IF ch = "]" \/ ch = "}"
              THEN IF stack = <<>> THEN 0
                   ELSE IF ch # stack[Len(stack)] THEN 0
                   ELSE IF Len(stack) = 1 THEN i
                   ELSE BracketScanNoQuotes(t, i + 1, SubSeq(stack, 1, Len(stack) - 1),
                                            in_str, esc)
         ELSE BracketScanNoQuotes(t, i + 1, stack, in_str, esc)

\* the while loop of the bracket scan from index i: the index of the closing
\* bracket that empties the stack, or 0 when the loop breaks on a closer
\* that does not match or runs off the end of the text.
\* stack: the expected closers, innermost last; in_str: the open quote
\* character or "" outside a quoted run; esc: after a backslash
RECURSIVE BracketScan(_, _, _, _, _)
BracketScan(t, i, stack, in_str, esc) ==
    IF i > Len(t) THEN 0
    ELSE LET ch == t[i] IN
         IF in_str # ""
         THEN IF esc THEN BracketScan(t, i + 1, stack, in_str, FALSE)
              ELSE IF ch = "\\" THEN BracketScan(t, i + 1, stack, in_str, TRUE)
              ELSE IF ch = in_str THEN BracketScan(t, i + 1, stack, "", FALSE)
              ELSE BracketScan(t, i + 1, stack, in_str, FALSE)
         ELSE IF ch = "\"" \/ ch = "'" THEN BracketScan(t, i + 1, stack, ch, esc)
         ELSE IF ch = "[" THEN BracketScan(t, i + 1, Append(stack, "]"), in_str, esc)
         ELSE IF ch = "{" THEN BracketScan(t, i + 1, Append(stack, "}"), in_str, esc)
         ELSE IF ch = "]" \/ ch = "}"
              THEN IF stack = <<>> THEN 0
                   ELSE IF ch # stack[Len(stack)] THEN 0
                   ELSE IF Len(stack) = 1 THEN i
                   ELSE BracketScan(t, i + 1, SubSeq(stack, 1, Len(stack) - 1), in_str, esc)
         ELSE BracketScan(t, i + 1, stack, in_str, esc)

\* the greedy span from the first '[' to the last ']'
GreedySpan(text) ==
    LET s == Find(text, "[", 1)
        e == RFind(text, "]", Len(text))
    IN  IF s # 0 /\ e # 0 /\ e > s
        THEN LoadsWithRepair(SubSeq(text, s, e))
        ELSE None

\* extract_json_from_text(text) on the stripped text
ExtractStripped(text) ==
    LET direct == JsonLoads(text)
        start_idx == FirstOpener(text, 1)
        end_idx == BracketScan(text, start_idx, <<>>, "", FALSE)
    IN  IF direct # None THEN direct
        ELSE IF start_idx = 0 THEN None
        ELSE IF end_idx # 0 THEN LoadsWithRepair(SubSeq(text, start_idx, end_idx))
        ELSE GreedySpan(text)

extract_json_from_text(text) ==
    IF text = <<>> THEN None ELSE ExtractStripped(Strip(StripFences(text)))

\* ------------------------------------------------------------------------
\* State
\* ------------------------------------------------------------------------

VARIABLES
    pc,              \* position in main() / in the extractor run
    text,            \* the argument of extract_json_from_text
    result,          \* its return value
    batch_idx,       \* loop variable of the batch-group loop (0-based)
    run_num,         \* loop variable of the run loop, 1..3
    parsed_data,     \* what the extractor returned for the response being handled
    selections_map,  \* the vote tally: entries [aid, runs, count], insertion order
    final_articles,  \* ids of the accepted articles, in tally order
    clusters,        \* the validated proposals call_gemini_cluster returns
    cluster_map,     \* entries [cid, main, members], insertion order
    used_ids,        \* the claimed ids
    clustered_items, \* the items to write: [id, cluster_id, similar]
    primary,         \* the items written to filter_feed.xml
    overflow         \* the items written to filter_feed_overflow.xml

vars == <<pc, text, result, batch_idx, run_num, parsed_data, selections_map,
          final_articles, clusters, cluster_map, used_ids, clustered_items,
          primary, overflow>>

extractVars == <<text, result>>

tallyVars == <<batch_idx, run_num, parsed_data, selections_map, final_articles>>

clusterVars == <<clusters, cluster_map, used_ids, clustered_items, primary, overflow>>

\* ------------------------------------------------------------------------
\* Bounds and program constants
\* ------------------------------------------------------------------------

\* len(articles): the number of candidate articles, ids 0..NumArticles-1
NumArticles == 2

\* longest list of decisions a response carries
MaxDecisions == 2

\* batch_size of the only entry of MODELS
BatchSize == 100

\* for run_num in (1, 2, 3)
NumRuns == 3

\* if info['count'] >= 2
Threshold == 2

ArticleIds == 0 .. (NumArticles - 1)

\* all sequences over S of length at most n
SeqsUpTo(S, n) == UNION {[1..m -> S] : m \in 0..n}

\* ------------------------------------------------------------------------
\* Vote tally (main, the run loop)
\* ------------------------------------------------------------------------

\* len(model_batches[m_name]): ceil(len(articles) / batch_size)
BatchCount == (NumArticles + BatchSize - 1) \div BatchSize

\* isinstance(aid, int): Python's bool is a subclass of int
IsInstanceInt(v) == v.k \in {"int", "bool"}

\* the integer a Python int or bool compares and hashes as
IntOf(v) == IF v.k = "bool" THEN (IF v.b THEN 1 ELSE 0) ELSE v.n

\* f"Batch{batch_idx+1}-Run{run_num}"
RunLabel(b, r) == <<"Batch", b + 1, "Run", r>>

\* position of key aid in the tally, 0 if absent
RECURSIVE EntryIndex(_, _, _)
EntryIndex(map, aid, i) ==
    IF i > Len(map) THEN 0
    ELSE IF map[i].aid = aid THEN i
    ELSE EntryIndex(map, aid, i + 1)

\* the loop body with the count set when the entry is created and not
\* raised for a later vote
RecordVoteCountOnce(map, v, label) ==
    IF IsInstanceInt(v) /\ 0 <= IntOf(v) /\ IntOf(v) < NumArticles
    THEN LET aid == IntOf(v)
             i == EntryIndex(map, aid, 1)
         IN  IF i = 0
             THEN Append(map, [aid |-> aid, runs |-> <<label>>, count |-> 1])
             ELSE [map EXCEPT ![i] = [aid |-> aid,
                                      runs |-> Append(@.runs, label),
                                      count |-> @.count]]
    ELSE map

\* the body of "for aid in decisions" for one element
RecordVote(map, v, label) ==
    IF IsInstanceInt(v) /\ 0 <= IntOf(v) /\ IntOf(v) < NumArticles
    THEN LET aid == IntOf(v)
             withKey == IF EntryIndex(map, aid, 1) = 0
                        THEN Append(map, [aid |-> aid, runs |-> <<>>, count |-> 0])
                        ELSE map
             i == EntryIndex(withKey, aid, 1)
         IN  [withKey EXCEPT ![i] = [aid |-> aid,
                                     runs |-> Append(@.runs, label),
                                     count |-> @.count + 1]]
    ELSE map

\* "for aid in decisions": the elements in order
RECURSIVE RecordRun(_, _, _)
RecordRun(map, decisions, label) ==
    IF decisions = <<>> THEN map
    ELSE RecordRun(RecordVote(map, Head(decisions), label), Tail(decisions), label)

\* call_model of bmain.py after the extractor: the returned list, or exit
CallModelExits(parsed) == ~(parsed # None /\ IsList(parsed))

\* what one element of a response list can be
DecisionValues ==
    {PyInt(n) : n \in (-1) .. NumArticles} \cup {PyBool(TRUE), PyStr(<<"a">>)}

\* what the extractor can hand to call_model for one response
ParsedResponses ==
    {None, PyDict(<<>>, <<>>), PyInt(1)}
        \cup {PyList(d) : d \in SeqsUpTo(DecisionValues, MaxDecisions)}

\* line 393, decisions = call_model(model_info, batch): the response of the
\* model goes through the extractor; anything but a list ends the process
CallModelReturns(parsed) ==
    /\ parsed_data' = parsed
    /\ pc' = IF CallModelExits(parsed) THEN "exit1" ELSE "tally"
    /\ UNCHANGED <<batch_idx, run_num, selections_map, final_articles,
                   extractVars, clusterVars>>

\* one call of call_model, on any response
CallModel == pc = "call" /\ \E parsed \in ParsedResponses : CallModelReturns(parsed)

\* lines 394-409: the returned list is tallied under the label of the run
\* and the two enclosing loops step; the list is consumed
TallyRun ==
    /\ pc = "tally"
    /\ selections_map' =
           RecordRun(selections_map, parsed_data.items, RunLabel(batch_idx, run_num))
    /\ parsed_data' = None
    /\ IF run_num < NumRuns
       THEN /\ run_num' = run_num + 1
            /\ batch_idx' = batch_idx
            /\ pc' = "call"
       ELSE IF batch_idx < BatchCount - 1
            THEN /\ run_num' = 1
                 /\ batch_idx' = batch_idx + 1
                 /\ pc' = "call"
            ELSE /\ pc' = "filter"
                 /\ UNCHANGED <<batch_idx, run_num>>
    /\ UNCHANGED <<final_articles, extractVars, clusterVars>>

\* the filter with the comparison off by one: count > 2
RECURSIVE QuorumFilterStrict(_)
QuorumFilterStrict(map) ==
    IF map = <<>> THEN <<>>
    ELSE IF Head(map).count > Threshold
         THEN <<Head(map).aid>> \o QuorumFilterStrict(Tail(map))
         ELSE QuorumFilterStrict(Tail(map))

\* the ids of the entries with count >= 2, in tally order
RECURSIVE QuorumFilter(_)
QuorumFilter(map) ==
    IF map = <<>> THEN <<>>
    ELSE IF Head(map).count >= Threshold
         THEN <<Head(map).aid>> \o QuorumFilter(Tail(map))
         ELSE QuorumFilter(Tail(map))

\* lines 410-429: the quorum filter; with nothing accepted the two empty
\* feeds are written and main returns
Filter ==
    /\ pc = "filter"
    /\ final_articles' = QuorumFilter(selections_map)
    /\ pc' = IF QuorumFilter(selections_map) = <<>> THEN "done" ELSE "cluster"
    /\ UNCHANGED <<batch_idx, run_num, parsed_data, selections_map,
                   extractVars, clusterVars>>

\* ------------------------------------------------------------------------
\* call_gemini_cluster: validation of the grouping response
\* ------------------------------------------------------------------------

\* key in d, for a dict d
HasKey(d, key) == KeyIndex(d.keys, key, 1) # 0

\* d[key], for a key of d
DictGet(d, key) == d.vals[KeyIndex(d.keys, key, 1)]

\* for key in ['clusters', 'data', 'result', 'output']
WrapperKeys == <<"clusters", "data", "result", "output">>

\* lines 329-334: a dict is replaced by the list under the first wrapper key
\* that holds one
RECURSIVE Unwrap(_, _)
Unwrap(parsed, i) ==
    IF i > Len(WrapperKeys) THEN parsed
    ELSE IF HasKey(parsed, WrapperKeys[i]) /\ IsList(DictGet(parsed, WrapperKeys[i]))
         THEN DictGet(parsed, WrapperKeys[i])
         ELSE Unwrap(parsed, i + 1)

UnwrapResponse(parsed) == IF IsDict(parsed) THEN Unwrap(parsed, 1) ELSE parsed

\* int(x) does not raise: an int, a bool, or a string of digits with
\* optional whitespace around it
IntCoercible(v) ==
    \/ v.k \in {"int", "bool"}
    \/ /\ v.k = "str"
       /\ Strip(v.s) # <<>>
       /\ \A i \in 1..Len(Strip(v.s)) : IsDigit(Strip(v.s)[i])

\* int(x)
IntCoerce(v) ==
    IF v.k = "str" THEN (ScanDigits(Strip(v.s), 1, 0)).val.n ELSE IntOf(v)

\* "for x in v" does not raise
Iterable(v) == v.k \in {"list", "str", "dict"}

\* the values "for x in v" yields: the items of a list, the characters of a
\* string, the keys of a dict
IterItems(v) ==
    IF v.k = "list" THEN v.items
    ELSE IF v.k = "str" THEN [i \in 1..Len(v.s) |-> PyStr(<<v.s[i]>>)]
    ELSE [i \in 1..Len(v.keys) |-> PyStr(v.keys[i])]

\* [int(x) for x in c['members']] and int(c['main']) do not raise
ProposalCoercible(c) ==
    /\ Iterable(DictGet(c, "members"))
    /\ \A i \in 1..Len(IterItems(DictGet(c, "members"))) :
           IntCoercible(IterItems(DictGet(c, "members"))[i])
    /\ IntCoercible(DictGet(c, "main"))

\* lines 345-353: the item passes the checks of the validation loop
ProposalValid(c) ==
    /\ IsDict(c)
    /\ HasKey(c, "members") /\ HasKey(c, "main")
    /\ ProposalCoercible(c)

\* line 354 raises: int(c.get("cluster_id", idx)) is outside the try block
ClusterIdRaises(c) ==
    HasKey(c, "cluster_id") /\ ~IntCoercible(DictGet(c, "cluster_id"))

\* line 354: the validated proposal
Validated(c, idx) ==
    [cluster_id |-> IF HasKey(c, "cluster_id")
                    THEN IntCoerce(DictGet(c, "cluster_id")) ELSE idx,
     main |-> IntCoerce(DictGet(c, "main")),
     members |-> [i \in 1..Len(IterItems(DictGet(c, "members"))) |->
                     IntCoerce(IterItems(DictGet(c, "members"))[i])]]

\* lines 343-354, the loop from 0-based index idx on: the validated list,
\* or raised when line 354 raises
RECURSIVE ValidateFrom(_, _, _)
ValidateFrom(items, idx, acc) ==
    IF idx >= Len(items) THEN [raised |-> FALSE, validated |-> acc]
    ELSE LET c == items[idx + 1] IN
         IF ~ProposalValid(c) THEN ValidateFrom(items, idx + 1, acc)
         ELSE IF ClusterIdRaises(c) THEN [raised |-> TRUE, validated |-> acc]
         ELSE ValidateFrom(items, idx + 1, Append(acc, Validated(c, idx)))

\* call_gemini_cluster after the extractor: how it ends ("return", "exit1"
\* for sys.exit(1), "raise" for an uncaught exception) and what it returns
call_gemini_cluster(parsed) ==
    LET unwrapped == UnwrapResponse(parsed) IN
    IF ~IsList(unwrapped) THEN [end |-> "exit1", validated |-> <<>>]
    ELSE LET v == ValidateFrom(unwrapped.items, 0, <<>>) IN
         IF v.raised THEN [end |-> "raise", validated |-> <<>>]
         ELSE IF v.validated = <<>> THEN [end |-> "exit1", validated |-> <<>>]
         ELSE [end |-> "return", validated |-> v.validated]

\* ------------------------------------------------------------------------
\* Cluster resolver (main, lines 432-446)
\* ------------------------------------------------------------------------

\* x in members
InSeq(x, members) == \E i \in 1..Len(members) : members[i] = x

SeqToSet(members) == {members[i] : i \in 1..Len(members)}

\* position of key cid in the cluster map, 0 if absent
RECURSIVE ClusterIndex(_, _, _)
ClusterIndex(map, cid, i) ==
    IF i > Len(map) THEN 0
    ELSE IF map[i].cid = cid THEN i
    ELSE ClusterIndex(map, cid, i + 1)

\* cluster_map[cid] = {"main": main, "members": members}: a new key goes to
\* the end, an existing key keeps its place and gets the new value
ClusterMapSet(map, cid, main, members) ==
    LET i == ClusterIndex(map, cid, 1)
        entry == [cid |-> cid, main |-> main, members |-> members]
    IN  IF i = 0 THEN Append(map, entry) ELSE [map EXCEPT ![i] = entry]

\* the loop body that keeps the declared main whether it is a member or not
ResolveOneDeclaredMain(st, c) ==
    IF c.members = <<>>
    THEN st
    ELSE [map |-> ClusterMapSet(st.map, c.cluster_id, c.main, c.members),
          used |-> st.used \cup SeqToSet(c.members)]

\* the body of "for c in clusters" for one proposal, on [map, used]
ResolveOne(st, c) ==
    IF ~InSeq(c.main, c.members) /\ c.members = <<>>
    THEN st
    ELSE [map |-> ClusterMapSet(st.map, c.cluster_id,
                                IF InSeq(c.main, c.members) THEN c.main ELSE c.members[1],
                                c.members),
          used |-> st.used \cup SeqToSet(c.members)]

\* lines 434-441, "for c in clusters"
RECURSIVE ResolveAll(_, _)
ResolveAll(st, cs) ==
    IF cs = <<>> THEN st ELSE ResolveAll(ResolveOne(st, Head(cs)), Tail(cs))

\* the number of keys taken for the largest key: len(cluster_map) - 1
MaxCidByCount(map) == Len(map) - 1

\* max(cluster_map.keys())
RECURSIVE MaxCid(_)
MaxCid(map) ==
    IF Len(map) = 1 THEN map[1].cid
    ELSE LET m == MaxCid(Tail(map)) IN IF map[1].cid > m THEN map[1].cid ELSE m

\* lines 443-446, "for art in final_articles" from next_cid on
RECURSIVE Sweep(_, _, _, _)
Sweep(map, used, arts, next_cid) ==
    IF arts = <<>> THEN map
    ELSE IF Head(arts) \notin used
         THEN Sweep(ClusterMapSet(map, next_cid, Head(arts), <<Head(arts)>>),
                    used, Tail(arts), next_cid + 1)
         ELSE Sweep(map, used, Tail(arts), next_cid)


\* the grouping response is handed to call_gemini_cluster (lines 430-431)
CallGeminiClusterReturns(parsed) ==
    /\ parsed_data' = parsed
    /\ clusters' = call_gemini_cluster(parsed).validated
    /\ pc' = IF call_gemini_cluster(parsed).end = "return"
             THEN "resolve" ELSE call_gemini_cluster(parsed).end
    /\ UNCHANGED <<batch_idx, run_num, selections_map, final_articles, extractVars,
                   cluster_map, used_ids, clustered_items, primary, overflow>>

\* lines 432-446: the proposals are stored in order, then every accepted id
\* not in used_ids gets a cluster of its own
ResolveClusters ==
    /\ pc = "resolve"
    /\ LET st == ResolveAll([map |-> <<>>, used |-> {}], clusters)
           next_cid == IF st.map # <<>> THEN MaxCid(st.map) + 1 ELSE 0
       IN  /\ used_ids' = st.used
           /\ cluster_map' = Sweep(st.map, st.used, final_articles, next_cid)
    /\ pc' = "emit"
    /\ UNCHANGED <<tallyVars, extractVars, clusters, clustered_items, primary, overflow>>

\* MAX_FEED_ITEMS
MAX_FEED_ITEMS == 100

\* the similar items with every member rendered, accepted or not
RECURSIVE SimilarItemsUnchecked(_, _, _)
SimilarItemsUnchecked(members, main_id, arts) ==
    IF members = <<>> THEN <<>>
    ELSE IF Head(members) # main_id
         THEN <<Head(members)>> \o SimilarItemsUnchecked(Tail(members), main_id, arts)
         ELSE SimilarItemsUnchecked(Tail(members), main_id, arts)

\* [m for m in members if m != main_id], of which only the accepted are rendered
RECURSIVE SimilarItems(_, _, _)
SimilarItems(members, main_id, arts) ==
    IF members = <<>> THEN <<>>
    ELSE IF Head(members) # main_id /\ InSeq(Head(members), arts)
         THEN <<Head(members)>> \o SimilarItems(Tail(members), main_id, arts)
         ELSE SimilarItems(Tail(members), main_id, arts)

\* lines 448-468, "for cid, info in cluster_map.items()": an entry whose
\* main is not accepted gives no item, any other gives one, in map order.
\* The map is taken by halves, which keeps the evaluation shallow for the
\* long maps of a run that fills both feeds
RECURSIVE ClusteredItems(_, _)
ClusteredItems(map, arts) ==
    IF map = <<>> THEN <<>>
    ELSE IF Len(map) = 1
    THEN IF ~InSeq(map[1].main, arts) THEN <<>>
         ELSE <<[id |-> map[1].main,
                 cluster_id |-> map[1].cid,
                 similar |-> SimilarItems(map[1].members, map[1].main, arts)]>>
    ELSE ClusteredItems(SubSeq(map, 1, Len(map) \div 2), arts)
         \o ClusteredItems(SubSeq(map, Len(map) \div 2 + 1, Len(map)), arts)

\* the slice with the element at b taken too
SliceInclusive(seq, a, b) ==
    SubSeq(seq, a + 1, IF b + 1 < Len(seq) THEN b + 1 ELSE Len(seq))

\* seq[a:b] of Python, 0-based and clipped
Slice(seq, a, b) ==
    SubSeq(seq, a + 1, IF b < Len(seq) THEN b ELSE Len(seq))

\* lines 447-474: the items are built and split over the two feeds
EmitFeeds ==
    /\ pc = "emit"
    /\ LET items == Slice(ClusteredItems(cluster_map, final_articles),
                          0, MAX_FEED_ITEMS * 2)
       IN  /\ clustered_items' = items
           /\ primary' = Slice(items, 0, MAX_FEED_ITEMS)
           /\ overflow' = Slice(items, MAX_FEED_ITEMS, MAX_FEED_ITEMS * 2)
    /\ pc' = "done"
    /\ UNCHANGED <<tallyVars, extractVars, clusters, cluster_map, used_ids>>

\* ------------------------------------------------------------------------
\* The grouping responses and the accepted lists the resolver is run on
\* ------------------------------------------------------------------------

\* a member list of a proposal: up to two ids
MemberLists ==
    {<<>>} \cup {<<a>> : a \in ArticleIds} \cup {<<a, b>> : a, b \in ArticleIds}

IntList(ids) == PyList([i \in 1..Len(ids) |-> PyInt(ids[i])])

\* a well-formed proposal, with or without a cluster_id of its own
Proposals ==
    {PyDict(<<"main", "members">>, <<PyInt(m), IntList(ms)>>) :
        m \in ArticleIds, ms \in MemberLists}
    \cup
    {PyDict(<<"cluster_id", "main", "members">>, <<PyInt(0), PyInt(m), IntList(ms)>>) :
        m \in ArticleIds, ms \in MemberLists}

\* items the validation loop has to cope with
MalformedItems ==
    {PyInt(1),
     PyDict(<<"members">>, <<IntList(<<0>>)>>),
     PyDict(<<"main", "members">>, <<PyInt(0), PyList(<<PyStr(<<"a">>)>>)>>),
     PyDict(<<"cluster_id", "main", "members">>,
            <<PyStr(<<"a">>), PyInt(0), IntList(<<0>>)>>)}

ResponseItems == Proposals \cup MalformedItems

\* a response list: up to two items
ItemLists ==
    {<<>>} \cup {<<c>> : c \in ResponseItems} \cup {<<c, d>> : c, d \in ResponseItems}

\* a dict around a list: under one wrapper key, under two, under no wrapper
\* key, and a wrapper key that holds no list
WrappedResponses ==
    {PyDict(<<key>>, <<PyList(<<c>>)>>) :
        key \in {"clusters", "output", "groups"}, c \in MalformedItems \cup
            {PyDict(<<"main", "members">>, <<PyInt(0), IntList(<<0>>)>>)}}
    \cup {PyDict(<<"output", "data">>,
                 <<PyList(<<PyDict(<<"main", "members">>, <<PyInt(0), IntList(<<0>>)>>)>>),
                   PyList(<<PyDict(<<"main", "members">>, <<PyInt(1), IntList(<<1>>)>>)>>)>>),
          PyDict(<<"data">>, <<PyInt(1)>>)}

\* what the extractor can hand to call_gemini_cluster
ClusterResponses ==
    {None, PyInt(1)} \cup {PyList(l) : l \in ItemLists} \cup WrappedResponses

\* the sequences of distinct ids: the accepted lists the quorum filter yields
RECURSIVE DistinctSeqs(_)
DistinctSeqs(S) ==
    {<<>>} \cup UNION {{<<a>> \o q : q \in DistinctSeqs(S \ {a})} : a \in S}

\* the tally after the runs 1 and 2 both returned the list arts and run 3
\* returned the empty list
TallyOf(arts) ==
    RecordRun(RecordRun(<<>>, IntList(arts).items, RunLabel(BatchCount - 1, 1)),
              IntList(arts).items, RunLabel(BatchCount - 1, 2))

\* main at line 430, with a non-empty accepted list
InitCluster ==
    /\ pc = "cluster"
    /\ batch_idx = BatchCount - 1
    /\ run_num = NumRuns
    /\ parsed_data = None
    /\ final_articles \in DistinctSeqs(ArticleIds) \ {<<>>}
    /\ selections_map = TallyOf(final_articles)
    /\ text = <<>>
    /\ result = None
    /\ clusters = <<>>
    /\ cluster_map = <<>>
    /\ used_ids = {}
    /\ clustered_items = <<>>
    /\ primary = <<>>
    /\ overflow = <<>>

\* one call of call_gemini_cluster, on any response
CallGeminiCluster ==
    pc = "cluster" /\ \E parsed \in ClusterResponses : CallGeminiClusterReturns(parsed)

NextCluster ==
    \/ CallGeminiCluster
    \/ ResolveClusters
    \/ EmitFeeds

SpecCluster == InitCluster /\ [][NextCluster]_vars


\* ------------------------------------------------------------------------
\* The extractor on its own: the texts it is run on
\* ------------------------------------------------------------------------

\* longest text over the whole token set
MaxTextLen == 3

Tokens ==
    {"[", "]", "{", "}", ",", ":", "\"", "'", "\\", "1", "a", " ", Fence, JsonTag}

\* every text of up to MaxTextLen tokens
ShortTexts == SeqsUpTo(Tokens, MaxTextLen)

\* longer texts over the tokens of arrays of strings
ArrayTexts == SeqsUpTo({"[", "]", ",", "\""}, MaxTextLen + 4)

\* longer texts over the tokens of nested brackets
NestTexts == SeqsUpTo({"[", "]", "{", "}", "1", ","}, MaxTextLen + 2)

\* longer texts over the tokens of quoted runs
QuoteTexts == SeqsUpTo({"[", "]", "\"", "'", "\\"}, MaxTextLen + 2)

\* a short text of array tokens with up to one token of any kind on each side
WrappedTexts ==
    {pre \o core \o post :
        pre \in SeqsUpTo(Tokens, 1),
        core \in SeqsUpTo({"[", "]", "1", ","}, MaxTextLen),
        post \in SeqsUpTo(Tokens, 1)}

Texts == ShortTexts \cup ArrayTexts \cup NestTexts \cup QuoteTexts \cup WrappedTexts

InitExtract ==
    /\ pc = "extract"
    /\ text \in Texts
    /\ result = None
    /\ batch_idx = 0
    /\ run_num = 1
    /\ parsed_data = None
    /\ selections_map = <<>>
    /\ final_articles = <<>>
    /\ clusters = <<>>
    /\ cluster_map = <<>>
    /\ used_ids = {}
    /\ clustered_items = <<>>
    /\ primary = <<>>
    /\ overflow = <<>>

\* one call of extract_json_from_text
Extract ==
    /\ pc = "extract"
    /\ result' = extract_json_from_text(text)
    /\ pc' = "extracted"
    /\ UNCHANGED <<text, tallyVars, clusterVars>>

NextExtract == Extract

SpecExtract == InitExtract /\ [][NextExtract]_vars


\* ------------------------------------------------------------------------
\* Properties of the extractor
\* ------------------------------------------------------------------------

\* the text as the strategies see it: fences removed, whitespace stripped
Seen(t) == Strip(StripFences(t))

\* the brackets of t outside quoted runs pair up: every closer closes the
\* innermost open bracket of its kind and nothing stays open
RECURSIVE PairsUp(_, _, _, _, _)
PairsUp(t, i, stack, quote, esc) ==
    IF i > Len(t) THEN stack = <<>>
    ELSE IF quote # ""
         THEN PairsUp(t, i + 1, stack,
                      IF ~esc /\ t[i] = quote THEN "" ELSE quote,
                      ~esc /\ t[i] = "\\")
    ELSE IF t[i] \in {"\"", "'"} THEN PairsUp(t, i + 1, stack, t[i], FALSE)
    ELSE IF t[i] = "[" THEN PairsUp(t, i + 1, <<"]">> \o stack, "", FALSE)
    ELSE IF t[i] = "{" THEN PairsUp(t, i + 1, <<"}">> \o stack, "", FALSE)
    ELSE IF IsCloser(t[i])
         THEN stack # <<>> /\ Head(stack) = t[i] /\ PairsUp(t, i + 1, Tail(stack), "", FALSE)
    ELSE PairsUp(t, i + 1, stack, "", FALSE)

\* unbalanced or mismatched brackets
Unbalanced(t) == ~PairsUp(t, 1, <<>>, "", FALSE)

\* some part of t that starts at an opening bracket and ends at a closing
\* bracket is balanced in itself
HasBalancedPart(t) ==
    \E i \in 1..Len(t) : \E j \in (i + 1)..Len(t) :
        /\ IsOpener(t[i])
        /\ IsCloser(t[j])
        /\ PairsUp(SubSeq(t, i, j), 1, <<>>, "", FALSE)

\* C8 as stated: a text with unbalanced or mismatched brackets gives None
C8_UnbalancedGivesNone ==
    (pc = "extracted" /\ Unbalanced(Seen(text))) => result = None

\* C8 amended: a text with unbalanced or mismatched brackets that has no
\* balanced bracketed part gives None (a balanced part of an unbalanced text
\* can be returned)
C8_NoBalancedPartGivesNone ==
    (pc = "extracted" /\ Unbalanced(Seen(text)) /\ ~HasBalancedPart(Seen(text)))
        => result = None

\* C8 witness: an unbalanced text with '[' before ']' and no balanced part
\* went through all three strategies and gave None
C8_Witness ==
    /\ pc = "extracted"
    /\ Unbalanced(Seen(text))
    /\ ~HasBalancedPart(Seen(text))
    /\ Find(Seen(text), "[", 1) # 0
    /\ RFind(Seen(text), "]", Len(Seen(text))) > Find(Seen(text), "[", 1)
    /\ result = None

\* text[i..j] is a JSON array, written without whitespace around it
IsArrayAt(t, i, j) ==
    /\ t[i] = "[" /\ t[j] = "]"
    /\ IsList(JsonLoads(SubSeq(t, i, j)))

\* the only part of t that is a JSON array is t[i..j]
OnlyArrayAt(t, i, j) ==
    /\ IsArrayAt(t, i, j)
    /\ \A a \in 1..Len(t) : \A b \in a..Len(t) :
           IsArrayAt(t, a, b) => (a = i /\ b = j)

\* prose without bracket and double-quote characters
PlainProse(p) == \A n \in 1..Len(p) : p[n] \notin {"[", "]", "{", "}", "\""}

HasFence(t) == \E n \in 1..Len(t) : t[n] = Fence

\* C9 as stated: when the text is one JSON array with arbitrary prose and
\* fences around it, the array is returned
C9_ArrayInProseRecovered ==
    pc = "extracted" =>
        \A i \in 1..Len(text) : \A j \in i..Len(text) :
            OnlyArrayAt(text, i, j) => result = JsonLoads(SubSeq(text, i, j))

\* C9 amended: when the text is a JSON array (no fence marker inside it) with
\* fences and prose around it, and the prose has no bracket and no
\* double-quote character, the array is returned
C9_ArrayInPlainProseRecovered ==
    pc = "extracted" =>
        \A i \in 1..Len(text) : \A j \in i..Len(text) :
            ( /\ IsArrayAt(text, i, j)
              /\ ~HasFence(SubSeq(text, i, j))
              /\ PlainProse(SubSeq(text, 1, i - 1))
              /\ PlainProse(SubSeq(text, j + 1, Len(text))) )
            => result = JsonLoads(SubSeq(text, i, j))

\* C9 witness: a non-empty array after a fence and before prose was returned
C9_Witness ==
    /\ pc = "extracted"
    /\ Len(text) >= 5
    /\ text[1] = Fence
    /\ text[Len(text)] = "a"
    /\ IsArrayAt(text, 2, Len(text) - 1)
    /\ result = JsonLoads(SubSeq(text, 2, Len(text) - 1))
    /\ result.items # <<>>

\* t without its p-th token
Without(t, p) == SubSeq(t, 1, p - 1) \o SubSeq(t, p + 1, Len(t))

\* t is a JSON array but for the comma at p, which stands before the closing
\* bracket that ends t
TrailingCommaAt(t, p) ==
    /\ t[p] = ","
    /\ t[1] = "["
    /\ SkipWs(t, p + 1) = Len(t)
    /\ t[Len(t)] = "]"
    /\ JsonLoads(t) = None
    /\ IsList(JsonLoads(Without(t, p)))

\* C10: an array with a trailing comma is returned as the array without
\* that comma, every element unchanged
C10_TrailingCommaOnlyRemoved ==
    pc = "extracted" =>
        \A p \in 1..Len(text) :
            TrailingCommaAt(text, p) => result = JsonLoads(Without(text, p))

\* C16: None is returned only when all three strategies fail: whenever the
\* result is None, the greedy span from the first '[' to the last ']' does
\* not parse either, as it is or repaired
C16_NoneOnlyWhenGreedyFails ==
    (pc = "extracted" /\ result = None /\ text # <<>>)
        => GreedySpan(Seen(text)) = None

\* the quoted run the scan started at s is in before it reads t[p]: q is the
\* open quote character ("" outside a run), esc holds after a backslash
RECURSIVE QuoteState(_, _, _)
QuoteState(t, s, p) ==
    IF p <= s THEN [q |-> "", esc |-> FALSE]
    ELSE LET st == QuoteState(t, s, p - 1)
             ch == t[p - 1]
         IN  IF st.q = ""
             THEN IF ch \in {"\"", "'"} THEN [q |-> ch, esc |-> FALSE] ELSE st
             ELSE IF st.esc THEN [q |-> st.q, esc |-> FALSE]
             ELSE IF ch = "\\" THEN [q |-> st.q, esc |-> TRUE]
             ELSE IF ch = st.q THEN [q |-> "", esc |-> FALSE]
             ELSE st

\* the brackets of t[s..j] that are outside every quoted run
OpenersOutside(t, s, j) ==
    {p \in s..j : IsOpener(t[p]) /\ QuoteState(t, s, p).q = ""}

ClosersOutside(t, s, j) ==
    {p \in s..j : IsCloser(t[p]) /\ QuoteState(t, s, p).q = ""}

\* t[j] is a closing bracket outside any quoted run that closes the last
\* open bracket of t[s..j]
EmptiesAt(t, s, j) ==
    /\ j \in ClosersOutside(t, s, j)
    /\ Cardinality(OpenersOutside(t, s, j)) = Cardinality(ClosersOutside(t, s, j))

\* the first such closing bracket, 0 if there is none
FirstEmptying(t, s) ==
    IF \E j \in s..Len(t) : EmptiesAt(t, s, j)
    THEN CHOOSE j \in s..Len(t) :
             EmptiesAt(t, s, j) /\ \A k \in s..(j - 1) : ~EmptiesAt(t, s, k)
    ELSE 0

\* the text the scan runs on, and where it starts
ScanText == Seen(text)

ScanStart == FirstOpener(ScanText, 1)

\* C18: brackets inside quoted runs and characters after a backslash inside
\* a quoted run do not count: the span of the scan ends at the first closing
\* bracket outside any quoted run that empties the stack, and that span is
\* what is parsed
C18_SpanEndsOutsideQuotes ==
    (pc = "extracted" /\ text # <<>> /\ JsonLoads(ScanText) = None /\ ScanStart # 0) =>
        LET end_idx == BracketScan(ScanText, ScanStart, <<>>, "", FALSE)
            first == FirstEmptying(ScanText, ScanStart)
        IN  /\ end_idx # 0 => end_idx = first
            /\ (first # 0 /\ PairsUp(SubSeq(ScanText, ScanStart, first), 1, <<>>, "", FALSE))
                   => /\ end_idx = first
                      /\ result = LoadsWithRepair(SubSeq(ScanText, ScanStart, first))

\* C18 witness: a closing bracket inside a double-quoted run was passed over
\* and the array that ends after it was returned
C18_Witness ==
    /\ pc = "extracted"
    /\ JsonLoads(ScanText) = None
    /\ ScanStart = 1
    /\ \E p \in 2..Len(ScanText) :
           /\ ScanText[p] = "]"
           /\ QuoteState(ScanText, 1, p).q = "\""
           /\ FirstEmptying(ScanText, 1) > p
           /\ result = JsonLoads(SubSeq(ScanText, 1, FirstEmptying(ScanText, 1)))
           /\ IsList(result)

\* ------------------------------------------------------------------------
\* Properties of the tally and of the quorum filter
\* ------------------------------------------------------------------------

\* the votes of aid in the tally, 0 when it has no entry
Votes(aid) ==
    IF EntryIndex(selections_map, aid, 1) = 0 THEN 0
    ELSE selections_map[EntryIndex(selections_map, aid, 1)].count

\* the runs that have been tallied so far
RunsTallied ==
    batch_idx * NumRuns + (IF pc \in {"call", "tally", "exit1"} THEN run_num - 1 ELSE run_num)

\* C4: a response without a usable list contributes nothing and the
\* aggregation goes on, it does not end the process
C4_UnusableRunContinues ==
    ~(pc = "exit1" /\ ~IsList(parsed_data))

\* C5: after the filter an id is accepted exactly when it has at least
\* Threshold votes
C5_AcceptedIffQuorum ==
    pc \in {"cluster", "done"} =>
        /\ SeqToSet(final_articles) = {aid \in ArticleIds : Votes(aid) >= Threshold}
        /\ \A aid \in SeqToSet(final_articles) : EntryIndex(selections_map, aid, 1) # 0

\* C5 witness: an id with exactly Threshold votes is accepted next to an id
\* with one vote less that is not
C5_Witness ==
    /\ pc = "cluster"
    /\ \E a, b \in ArticleIds :
           /\ Votes(a) = Threshold /\ InSeq(a, final_articles)
           /\ Votes(b) = Threshold - 1 /\ ~InSeq(b, final_articles)

\* C6: a run gives an id at most one vote and one label: no label is twice
\* in the provenance of an id and no count exceeds the number of runs
C6_OneVotePerRun ==
    \A i \in 1..Len(selections_map) :
        /\ selections_map[i].count <= RunsTallied
        /\ \A a, b \in 1..Len(selections_map[i].runs) :
               a # b => selections_map[i].runs[a] # selections_map[i].runs[b]

\* the ids a list of decisions names: its integers within the range
NamedIds(decisions) ==
    {decisions[i].n : i \in {j \in 1..Len(decisions) :
        decisions[j].k = "int" /\ decisions[j].n \in ArticleIds}}

\* C7: tallying a list counts the ids it names and creates no entry and no
\* vote for any other element of the list
C7_OtherElementsDropped ==
    [][pc = "tally" =>
          \A aid \in ArticleIds :
              (Votes(aid)' > Votes(aid)) <=> (aid \in NamedIds(parsed_data.items))]_vars

\* ------------------------------------------------------------------------
\* Properties of the cluster resolver
\* ------------------------------------------------------------------------

\* C1: the clusters partition the accepted set
C1_ClustersPartitionAccepted ==
    pc \in {"emit", "done"} =>
        /\ UNION {SeqToSet(cluster_map[i].members) : i \in 1..Len(cluster_map)}
               = SeqToSet(final_articles)
        /\ \A i, j \in 1..Len(cluster_map) :
               i # j => SeqToSet(cluster_map[i].members)
                            \cap SeqToSet(cluster_map[j].members) = {}

\* the proposals that name id x as a member
Naming(x) == {n \in 1..Len(clusters) : InSeq(x, clusters[n].members)}

\* the earliest proposal that names id x
Earliest(x) == CHOOSE n \in Naming(x) : \A m \in Naming(x) : n <= m

\* C2: an id that several proposals name stays with the earliest of them
\* only: one stored cluster holds it, and that cluster is made of members of
\* the earliest proposal naming it
C2_FirstProposalWins ==
    pc \in {"emit", "done"} =>
        \A x \in ArticleIds : Naming(x) # {} =>
            \A i \in 1..Len(cluster_map) : InSeq(x, cluster_map[i].members) =>
                /\ SeqToSet(cluster_map[i].members)
                       \subseteq SeqToSet(clusters[Earliest(x)].members)
                /\ \A j \in 1..Len(cluster_map) :
                       InSeq(x, cluster_map[j].members) => i = j

\* the response cannot be taken as an array of valid proposals
NoProposalArray(parsed) ==
    \/ ~IsList(UnwrapResponse(parsed))
    \/ \A i \in 1..Len(UnwrapResponse(parsed).items) :
           ~ProposalValid(UnwrapResponse(parsed).items[i])

\* C3: without an array of valid proposals the clustering does not fail:
\* every accepted id gets a cluster of its own and the output is produced
C3_FallbackToSingletons ==
    (pc # "cluster" /\ NoProposalArray(parsed_data)) =>
        /\ pc \in {"emit", "done"}
        /\ Len(cluster_map) = Len(final_articles)
        /\ \A i \in 1..Len(cluster_map) :
               /\ cluster_map[i].main = final_articles[i]
               /\ cluster_map[i].members = <<final_articles[i]>>


\* C11: the emitted items are the clusters of the proposals, in the order of
\* the proposals, and after them the singletons of the ids no proposal
\* names, in ascending id order
C11_ProposalsThenSingletonsAscending ==
    pc = "done" =>
        \A i, j \in 1..Len(clustered_items) : i < j =>
            LET a == clustered_items[i].id
                b == clustered_items[j].id
            IN  /\ (Naming(a) # {} /\ Naming(b) # {}) => Earliest(a) < Earliest(b)
                /\ (Naming(a) = {} /\ Naming(b) = {}) => a < b
                /\ ~(Naming(a) = {} /\ Naming(b) # {})

\* proposal n survives on any reading: it has members, all of them accepted,
\* and no other proposal names one of them
SurvivesAlone(n) ==
    /\ clusters[n].members # <<>>
    /\ SeqToSet(clusters[n].members) \subseteq SeqToSet(final_articles)
    /\ \A k \in 1..Len(clusters) :
           k # n => SeqToSet(clusters[k].members) \cap SeqToSet(clusters[n].members) = {}

\* C12: two surviving proposals are two entries of the cluster map, whatever
\* cluster_id they declare
C12_SurvivorsGetDistinctEntries ==
    pc \in {"emit", "done"} =>
        \A m, n \in 1..Len(clusters) :
            (m # n /\ SurvivesAlone(m) /\ SurvivesAlone(n)) =>
                \E i, j \in 1..Len(cluster_map) :
                    /\ i # j
                    /\ SeqToSet(cluster_map[i].members) = SeqToSet(clusters[m].members)
                    /\ SeqToSet(cluster_map[j].members) = SeqToSet(clusters[n].members)

\* an item of the response that is no well-formed proposal
Malformed(c) == ~ProposalValid(c) \/ ClusterIdRaises(c)

\* C13: a response list with a malformed proposal neither raises nor ends
\* the process, and exactly its well-formed proposals are handed on
C13_MalformedProposalDropped ==
    ( /\ pc # "cluster"
      /\ IsList(UnwrapResponse(parsed_data))
      /\ \E i \in 1..Len(UnwrapResponse(parsed_data).items) :
             Malformed(UnwrapResponse(parsed_data).items[i]) )
    => /\ pc \in {"resolve", "emit", "done"}
       /\ Len(clusters) = Cardinality({i \in 1..Len(UnwrapResponse(parsed_data).items) :
                                          ~Malformed(UnwrapResponse(parsed_data).items[i])})

\* the wrapper keys of dict d that hold a list
ListWrappers(d) ==
    {i \in 1..Len(WrapperKeys) :
        HasKey(d, WrapperKeys[i]) /\ IsList(DictGet(d, WrapperKeys[i]))}

\* C14: a dict response is unwrapped when exactly one wrapper key holds a
\* list, and then that list is what is validated; with no such key or with
\* several no proposal is taken from it
C14_UnwrapIffExactlyOneWrapper ==
    (pc # "cluster" /\ IsDict(parsed_data)) =>
        IF Cardinality(ListWrappers(parsed_data)) = 1
        THEN clusters = call_gemini_cluster(DictGet(parsed_data,
                 WrapperKeys[CHOOSE i \in ListWrappers(parsed_data) : TRUE])).validated
        ELSE clusters = <<>>

\* ------------------------------------------------------------------------
\* The ensemble pipeline of main.py. It uses the variables its code shares
\* by name with bmain.py (selections_map, final_articles); batch_idx is the
\* batch index i, run_num the position of the model in MODELS, parsed_data
\* the decisions call_model returned, primary the list handed to save_xml.
\* ------------------------------------------------------------------------

\* BATCH_SIZE = 150
BATCH_SIZE == 150

\* MAX_BATCHES = 10
MAX_BATCHES == 10

\* len(MODELS)
NumModels == 3

\* len(batches): the batches of BATCH_SIZE articles, at most MAX_BATCHES
EnsBatchCount ==
    LET n == (NumArticles + BATCH_SIZE - 1) \div BATCH_SIZE
    IN  IF n > MAX_BATCHES THEN MAX_BATCHES ELSE n

\* articles_to_process: the ids of the articles in the batches
ArticlesToProcess ==
    {a \in ArticleIds : a < MAX_BATCHES * BATCH_SIZE}

\* for key in ['selections', 'articles', 'results', 'selected', 'data']
EnsWrapperKeys == <<"selections", "articles", "results", "selected", "data">>

\* lines 260-262: the list under the first key that holds one, [] without
RECURSIVE EnsUnwrap(_, _)
EnsUnwrap(parsed, i) ==
    IF i > Len(EnsWrapperKeys) THEN PyList(<<>>)
    ELSE IF HasKey(parsed, EnsWrapperKeys[i]) /\ IsList(DictGet(parsed, EnsWrapperKeys[i]))
         THEN DictGet(parsed, EnsWrapperKeys[i])
         ELSE EnsUnwrap(parsed, i + 1)

\* call_model of main.py after json.loads (None: JSONDecodeError), lines
\* 253-271: what it returns
EnsCallModelResult(parsed) ==
    IF IsDict(parsed)
    THEN IF HasKey(parsed, "error") THEN PyList(<<>>) ELSE EnsUnwrap(parsed, 1)
    ELSE IF IsList(parsed) THEN parsed
    ELSE PyList(<<>>)

\* d.get('id') raises: d has no get, it is not a dict
GetRaises(d) == ~IsDict(d)

\* d.get('id')
GetId(d) == IF HasKey(d, "id") THEN DictGet(d, "id") ELSE None

\* "article_id not in selections_map" raises: a list or a dict is unhashable
Unhashable(v) == v.k \in {"list", "dict"}

\* the key as the dict compares it: True and 1 are the same key
EnsKey(v) == IF v.k = "bool" THEN PyInt(IntOf(v)) ELSE v

\* position of the key in the selections map, 0 if absent
RECURSIVE EnsEntryIndex(_, _, _)
EnsEntryIndex(map, key, i) ==
    IF i > Len(map) THEN 0
    ELSE IF map[i].article_id = key THEN i
    ELSE EnsEntryIndex(map, key, i + 1)

\* lines 346-353: one decision d of the model at position m is stored
StoreDecision(map, d, m) ==
    LET key == EnsKey(GetId(d))
        i == EnsEntryIndex(map, key, 1)
    IN  IF i = 0
        THEN Append(map, [article_id |-> key, models |-> <<m>>, decisions |-> <<d>>])
        ELSE [map EXCEPT ![i] = [article_id |-> key,
                                 models |-> Append(map[i].models, m),
                                 decisions |-> Append(map[i].decisions, d)]]

\* lines 345-353, "for d in decisions": the map after the loop, or raised
\* when an element makes line 346 or 347 raise
RECURSIVE StoreDecisions(_, _, _)
StoreDecisions(map, ds, m) ==
    IF ds = <<>> THEN [raised |-> FALSE, map |-> map]
    ELSE IF GetRaises(Head(ds)) \/ Unhashable(GetId(Head(ds)))
         THEN [raised |-> TRUE, map |-> map]
         ELSE StoreDecisions(StoreDecision(map, Head(ds), m), Tail(ds), m)

\* lines 372-376 and 388-395, "for article_id, selection_info in
\* selections_map.items()": the ids of the originals found, in map order.
\* fetch_titles_only keeps links and titles unique (lines 191-200), so the
\* seen_links and seen_titles test holds for no article
RECURSIVE MergeSelections(_)
MergeSelections(map) ==
    IF map = <<>> THEN <<>>
    ELSE IF Head(map).article_id.k = "int" /\ Head(map).article_id.n \in ArticlesToProcess
         THEN <<Head(map).article_id.n>> \o MergeSelections(Tail(map))
         ELSE MergeSelections(Tail(map))

\* line 342: call_model is called for the model at run_num of batch batch_idx
EnsCallModelReturns(parsed) ==
    /\ parsed_data' = EnsCallModelResult(parsed)
    /\ pc' = "ens_store"
    /\ UNCHANGED <<batch_idx, run_num, selections_map, final_articles,
                   extractVars, clusterVars>>

\* lines 345-362: the decisions are stored and the loops over MODELS and
\* batches step; an exception leaves the try block for the handler of lines
\* 441-446, which saves an empty feed and exits
EnsStore ==
    /\ pc = "ens_store"
    /\ LET r == StoreDecisions(selections_map, parsed_data.items, run_num) IN
       /\ selections_map' = r.map
       /\ IF r.raised
          THEN /\ pc' = "ens_error"
               /\ UNCHANGED <<batch_idx, run_num>>
          ELSE IF run_num < NumModels
          THEN /\ pc' = "ens_call"
               /\ run_num' = run_num + 1
               /\ UNCHANGED batch_idx
          ELSE IF batch_idx < EnsBatchCount - 1
          THEN /\ pc' = "ens_call"
               /\ run_num' = 1
               /\ batch_idx' = batch_idx + 1
          ELSE /\ pc' = "ens_merge"
               /\ UNCHANGED <<batch_idx, run_num>>
    /\ parsed_data' = None
    /\ UNCHANGED <<final_articles, extractVars, clusterVars>>

\* lines 364-432: the final list is built and saved
EnsMerge ==
    /\ pc = "ens_merge"
    /\ final_articles' = MergeSelections(selections_map)
    /\ primary' = MergeSelections(selections_map)
    /\ pc' = "ens_done"
    /\ UNCHANGED <<batch_idx, run_num, parsed_data, selections_map, extractVars,
                   clusters, cluster_map, used_ids, clustered_items, overflow>>

\* a decision record with the given id
Decision(id) == PyDict(<<"id">>, <<id>>)

\* decisions that can be stored: ids in and out of range, an id that is a
\* string, a record without id
StorableDecisions ==
    {Decision(PyInt(n)) : n \in 0..NumArticles}
    \cup {Decision(PyStr(<<"1">>)), PyDict(<<"reason">>, <<PyStr(<<"a">>)>>)}

\* elements on which the loop raises: a bare id, a string, a list as id
RaisingDecisions == {PyInt(0), PyStr(<<"a">>), Decision(PyList(<<>>))}

EnsDecisions == StorableDecisions \cup RaisingDecisions

\* what json.loads can give call_model of main.py: a list of up to two
\* decisions, a dict around one, an error dict, a dict without a list, a
\* number, nothing (None)
EnsResponses ==
    {PyList(<<>>)} \cup {PyList(<<d>>) : d \in EnsDecisions}
    \cup {PyList(<<d, e>>) : d, e \in EnsDecisions}
    \cup {PyDict(<<"selected">>, <<PyList(<<Decision(PyInt(0))>>)>>),
          PyDict(<<"error", "data">>, <<PyStr(<<"a">>), PyList(<<Decision(PyInt(0))>>)>>),
          PyDict(<<"data">>, <<PyInt(1)>>),
          PyInt(1), None}

\* one call of call_model, on any response
EnsCallModel ==
    pc = "ens_call" /\ \E parsed \in EnsResponses : EnsCallModelReturns(parsed)

\* main of main.py at line 327, with articles fetched
InitEnsemble ==
    /\ pc = "ens_call"
    /\ batch_idx = 0
    /\ run_num = 1
    /\ parsed_data = None
    /\ selections_map = <<>>
    /\ final_articles = <<>>
    /\ text = <<>>
    /\ result = None
    /\ clusters = <<>>
    /\ cluster_map = <<>>
    /\ used_ids = {}
    /\ clustered_items = <<>>
    /\ primary = <<>>
    /\ overflow = <<>>

NextEnsemble ==
    \/ EnsCallModel
    \/ EnsStore
    \/ EnsMerge

SpecEnsemble == InitEnsemble /\ [][NextEnsemble]_vars

\* the ids in range that the decisions stored so far name
RECURSIVE ValidIds(_)
ValidIds(map) ==
    IF map = <<>> THEN {}
    ELSE (IF Head(map).article_id.k = "int" /\ Head(map).article_id.n \in ArticleIds
          THEN {Head(map).article_id.n} ELSE {})
         \cup ValidIds(Tail(map))

\* C15: an invalid decision element is discarded on its own: the run ends
\* with the final list saved, and the list holds every id in range that a
\* stored decision names
C15_InvalidDecisionDiscardedAlone ==
    /\ pc # "ens_error"
    /\ pc = "ens_done" => SeqToSet(primary) = ValidIds(selections_map)

\* proposal n has members and no later proposal with members declares the
\* same cluster_id: its entry is the one the cluster map holds under that id
StoredProposal(n) ==
    /\ clusters[n].members # <<>>
    /\ \A k \in (n + 1)..Len(clusters) :
           clusters[k].members # <<>> => clusters[k].cluster_id # clusters[n].cluster_id

\* C17: the representative of every stored cluster is one of its members: for
\* a stored proposal the declared main when that is a member, the first
\* member otherwise; a proposal without members adds no entry to the map and
\* no id to the claimed ids
C17_RepresentativeIsMember ==
    pc \in {"emit", "done"} =>
        /\ \A i \in 1..Len(cluster_map) :
               InSeq(cluster_map[i].main, cluster_map[i].members)
        /\ \A n \in 1..Len(clusters) : StoredProposal(n) =>
               LET i == ClusterIndex(cluster_map, clusters[n].cluster_id, 1) IN
               /\ i # 0
               /\ cluster_map[i].members = clusters[n].members
               /\ cluster_map[i].main =
                      IF InSeq(clusters[n].main, clusters[n].members)
                      THEN clusters[n].main ELSE clusters[n].members[1]
        /\ Len(cluster_map) =
               Cardinality({clusters[n].cluster_id : n \in {k \in 1..Len(clusters) :
                                                        clusters[k].members # <<>>}})
               + Cardinality(SeqToSet(final_articles) \ used_ids)
        /\ used_ids = UNION {SeqToSet(clusters[n].members) : n \in 1..Len(clusters)}

\* C17 witness: a proposal whose declared main is not among its members was
\* stored under its first member, next to a proposal without members that
\* was dropped
C17_Witness ==
    /\ pc = "emit"
    /\ Len(clusters) = 2
    /\ clusters[2].members = <<>>
    /\ clusters[1].members # <<>>
    /\ ~InSeq(clusters[1].main, clusters[1].members)
    /\ cluster_map[1].main = clusters[1].members[1]
    /\ cluster_map[1].main # clusters[1].main

\* every tally entry has as many votes as labels, and at least one
TallyConsistent(map) ==
    \A i \in 1..Len(map) : map[i].count = Len(map[i].runs) /\ map[i].count >= 1

\* C19: in the aggregation loop a tally entry always has count = len(runs)
\* and count >= 1, and no step lowers a count or shortens a provenance list:
\* an entry stays in its place and its list of labels only grows at the end
C19_CountIsProvenanceLength ==
    [][/\ TallyConsistent(selections_map')
       /\ Len(selections_map') >= Len(selections_map)
       /\ \A i \in 1..Len(selections_map) :
              /\ selections_map'[i].aid = selections_map[i].aid
              /\ selections_map'[i].count >= selections_map[i].count
              /\ Len(selections_map'[i].runs) >= Len(selections_map[i].runs)
              /\ SubSeq(selections_map'[i].runs, 1, Len(selections_map[i].runs))
                     = selections_map[i].runs]_vars

\* C19 witness: after the last run an id has been voted for in every run and
\* another id in one run only
C19_Witness ==
    /\ pc = "filter"
    /\ \E i, j \in 1..Len(selections_map) :
           /\ selections_map[i].count = NumRuns
           /\ Len(selections_map[i].runs) = NumRuns
           /\ selections_map[j].count = 1

\* the cluster-map entries whose main is an accepted id
EmittingEntries ==
    {i \in 1..Len(cluster_map) : InSeq(cluster_map[i].main, final_articles)}

\* the items of a feed name accepted ids only, as main and as similar items
OnlyAccepted(items) ==
    \A i \in 1..Len(items) :
        /\ InSeq(items[i].id, final_articles)
        /\ SeqToSet(items[i].similar) \subseteq SeqToSet(final_articles)

\* C20: every article the output refers to, as the main item of a cluster
\* or as a similar item, is an accepted one, and a cluster whose main is
\* not accepted gives no item
C20_EmittedAreAccepted ==
    pc = "done" =>
        /\ OnlyAccepted(clustered_items)
        /\ OnlyAccepted(primary)
        /\ OnlyAccepted(overflow)
        /\ Len(clustered_items) = Cardinality(EmittingEntries)

\* C20 witness: the feeds were written from a cluster map with a cluster
\* whose main is not accepted and a cluster of an accepted main with a
\* member that is not accepted
C20_Witness ==
    /\ pc = "done"
    /\ clustered_items # <<>>
    /\ \E i \in 1..Len(cluster_map) : ~InSeq(cluster_map[i].main, final_articles)
    /\ \E i \in EmittingEntries : \E m \in SeqToSet(cluster_map[i].members) :
           m # cluster_map[i].main /\ ~InSeq(m, final_articles)

\* the cluster map as the loop over the proposals leaves it, before the sweep
ResolvedMap == ResolveAll([map |-> <<>>, used |-> {}], clusters).map

\* C21: the sweep gives every singleton a cluster id that no resolved
\* cluster and no other singleton has: the resolved clusters are still in
\* the map as they were, and every accepted id that is not claimed has its
\* singleton after them
C21_SweepIdsAreFresh ==
    pc \in {"emit", "done"} =>
        /\ Len(cluster_map) = Len(ResolvedMap)
                                + Cardinality(SeqToSet(final_articles) \ used_ids)
        /\ SubSeq(cluster_map, 1, Len(ResolvedMap)) = ResolvedMap
        /\ \A i \in (Len(ResolvedMap) + 1)..Len(cluster_map) :
               /\ cluster_map[i].members = <<cluster_map[i].main>>
               /\ cluster_map[i].main \in SeqToSet(final_articles) \ used_ids
               /\ \A j \in 1..Len(cluster_map) :
                      j # i => cluster_map[j].cid # cluster_map[i].cid
        /\ \A a \in SeqToSet(final_articles) \ used_ids :
               \E i \in (Len(ResolvedMap) + 1)..Len(cluster_map) : cluster_map[i].main = a

\* C21 witness: a singleton was added after a resolved cluster whose id is
\* not its position in the map
C21_Witness ==
    /\ pc = "emit"
    /\ Len(ResolvedMap) = 1
    /\ ResolvedMap[1].cid = 1
    /\ Len(cluster_map) = 2
    /\ cluster_map[2].cid = 2
    /\ cluster_map[2].members = <<cluster_map[2].main>>

\* ------------------------------------------------------------------------
\* The feeds of a run with many accepted articles: main from line 432 on,
\* with enough clusters to fill the two feeds and more
\* ------------------------------------------------------------------------

\* largest number of accepted articles: past MAX_FEED_ITEMS * 2
MaxEmitArticles == 205

\* the ids 0..n-1 in order
FirstIds(n) == [i \in 1..n |-> i - 1]

\* the tally of a run over n articles in which the runs 1 and 2 of each
\* batch group returned all the ids of the batch
EmitTally(n) ==
    [i \in 1..n |-> [aid |-> i - 1,
                     runs |-> <<RunLabel((i - 1) \div BatchSize, 1),
                                RunLabel((i - 1) \div BatchSize, 2)>>,
                     count |-> 2]]

\* the cluster map of the run when the grouping response held one proposal
\* without members (kind 1: every id is swept into a singleton, ids from 0
\* on), one that groups the ids 0 and 1 (kind 2), or one whose only member n
\* is not accepted (kind 3); with one article kind 2 names id 1, which is
\* not accepted
EmitProposal(kind, n) ==
    IF kind = 1 THEN [cluster_id |-> 0, main |-> 0, members |-> <<>>]
    ELSE IF kind = 2 THEN [cluster_id |-> 0, main |-> 0, members |-> <<0, 1>>]
    ELSE [cluster_id |-> 0, main |-> n, members |-> <<n>>]

\* lines 432-446 on that proposal: the stored proposal, if it has members,
\* and after it the singletons of the accepted ids it does not claim, with
\* the cluster ids that follow its own
EmitClusterMap(kind, n) ==
    LET c == EmitProposal(kind, n)
        head == IF c.members = <<>> THEN <<>>
                ELSE <<[cid |-> c.cluster_id, main |-> c.main, members |-> c.members]>>
        claimed == Cardinality(SeqToSet(c.members) \cap (0..(n - 1)))
    IN  head \o [i \in 1..(n - claimed) |->
                    [cid |-> Len(head) + i - 1,
                     main |-> claimed + i - 1,
                     members |-> <<claimed + i - 1>>]]

\* main at line 447, after the cluster map is built
InitEmit ==
    /\ pc = "emit"
    /\ \E n \in 1..MaxEmitArticles : \E kind \in 1..3 :
           /\ final_articles = FirstIds(n)
           /\ selections_map = EmitTally(n)
           /\ batch_idx = (n - 1) \div BatchSize
           /\ clusters = <<EmitProposal(kind, n)>>
           /\ cluster_map = EmitClusterMap(kind, n)
           /\ used_ids = SeqToSet(EmitProposal(kind, n).members)
    /\ run_num = NumRuns
    /\ parsed_data = None
    /\ text = <<>>
    /\ result = None
    /\ clustered_items = <<>>
    /\ primary = <<>>
    /\ overflow = <<>>

NextEmit == EmitFeeds

SpecEmit == InitEmit /\ [][NextEmit]_vars

\* the items of every cluster with an accepted main, before any cut
AllItems == ClusteredItems(cluster_map, final_articles)

\* the smaller of two numbers
Smaller(a, b) == IF a < b THEN a ELSE b

\* C22: the primary feed holds the first min(n, MAX_FEED_ITEMS) items of the
\* clustered sequence and the overflow feed the next ones, up to
\* MAX_FEED_ITEMS more, in the same order; no item is in both, and the
\* overflow feed has items only when the primary feed is full
C22_FeedsSplitInOrder ==
    pc = "done" =>
        /\ primary = SubSeq(AllItems, 1, Smaller(Len(AllItems), MAX_FEED_ITEMS))
        /\ overflow = SubSeq(AllItems, MAX_FEED_ITEMS + 1,
                             Smaller(Len(AllItems), MAX_FEED_ITEMS * 2))
        /\ Len(overflow) <= MAX_FEED_ITEMS
        /\ \A i \in 1..Len(primary) : \A j \in 1..Len(overflow) :
               primary[i] # overflow[j]
        /\ overflow # <<>> => Len(primary) = MAX_FEED_ITEMS

\* C22 witness: more items than the two feeds take: both feeds are full and
\* the items past them are in neither
C22_Witness ==
    /\ pc = "done"
    /\ Len(AllItems) > MAX_FEED_ITEMS * 2
    /\ Len(primary) = MAX_FEED_ITEMS
    /\ Len(overflow) = MAX_FEED_ITEMS
    /\ overflow[1] = AllItems[MAX_FEED_ITEMS + 1]

Init ==
    /\ pc = "call"
    /\ batch_idx = 0
    /\ run_num = 1
    /\ parsed_data = None
    /\ selections_map = <<>>
    /\ final_articles = <<>>
    /\ text = <<>>
    /\ result = None
    /\ clusters = <<>>
    /\ cluster_map = <<>>
    /\ used_ids = {}
    /\ clustered_items = <<>>
    /\ primary = <<>>
    /\ overflow = <<>>

Next ==
    \/ CallModel
    \/ TallyRun
    \/ Filter

Spec == Init /\ [][Next]_vars

====
